---- MODULE Spec2Model ----
(***************************************************************************)
(* Model of guest/src/mounts.rs: the essential tmpfs mounts performed      *)
(* early in guest startup.                                                 *)
(*                                                                         *)
(* State: the guest's directory tree and visible permission bits, the      *)
(* kernel mount list (what /proc/mounts is rendered from), whether         *)
(* /proc/mounts can be read, and for every caller of                       *)
(* mount_essential_tmpfs its position in the code.                         *)
(***************************************************************************)
EXTENDS Integers, Sequences, FiniteSets, TLC

(***************************************************************************)
(* Bounds                                                                  *)
(***************************************************************************)
\* number of calls of mount_essential_tmpfs in one behaviour
MaxRuns == 2
\* number of rows the inspector-only specification puts into /proc/mounts
MaxRows == 2

(***************************************************************************)
(* Mount table (mounts.rs 12-32)                                           *)
(***************************************************************************)
\* the value of a four digit octal literal 0oabcd
Octal(a, b, c, d) == ((a * 8 + b) * 8 + c) * 8 + d

TMPFS_MOUNTS ==
    << [path |-> "/tmp",     mode |-> Octal(1, 7, 7, 7)],
       [path |-> "/var/tmp", mode |-> Octal(1, 7, 7, 7)],
       [path |-> "/run",     mode |-> Octal(0, 7, 5, 5)] >>

TablePaths == { TMPFS_MOUNTS[i].path : i \in DOMAIN TMPFS_MOUNTS }

(***************************************************************************)
(* The guest file system                                                   *)
(***************************************************************************)
\* the directories the model tracks: the configured paths, their parents,
\* and /mnt, a directory the module has nothing to do with
FsPaths == {"/", "/tmp", "/var", "/var/tmp", "/run", "/mnt"}

\* Path::parent for the tracked directories
Parent(p) ==
    CASE p = "/var/tmp" -> "/var"
      [] OTHER          -> "/"

\* the chain of directories fs::create_dir_all(p) walks, outermost first
RECURSIVE Chain(_)
Chain(p) == IF p = "/" THEN << >> ELSE Append(Chain(Parent(p)), p)

\* permission bits of a directory made by mkdir under the default umask 022
NewDirMode == Octal(0, 7, 5, 5)
\* permission bits of the root of a tmpfs mounted without a mode= option
FreshTmpfsMode == Octal(1, 7, 7, 7)
\* permission bits recorded for a path that does not exist
NoMode == Octal(0, 0, 0, 0)
\* fs::Permissions::from_mode keeps the twelve permission bits
PermBits(m) == m % (8 * Octal(1, 0, 0, 0))

(***************************************************************************)
(* Callers and results                                                     *)
(***************************************************************************)
\* contexts that may call mount_essential_tmpfs: guest init, and a second
\* context for the concurrent case
Callers == {"init", "other"}

Ok(v)         == [tag |-> "Ok", val |-> v]
Err(e)        == [tag |-> "Err", val |-> e]
Internal(msg) == [tag |-> "Internal", val |-> msg]
NoResult      == [tag |-> "None", val |-> ""]

\* causes the operating system reports, as the error types display them
CreateErrors == {"Permission denied (os error 13)"}
MountErrors  == {"ENODEV: No such device", "EPERM: Operation not permitted"}
ChmodErrors  == {"Operation not permitted (os error 1)"}

VARIABLES
    dirs,          \* set of existing directories
    perm,          \* visible permission bits of every tracked path
    mountTable,    \* kernel mount list: sequence of rows, a row a sequence of columns
    procReadable,  \* whether fs::read_to_string("/proc/mounts") succeeds
    pc,            \* per caller: the step of mount_tmpfs it is about to take
    idx,           \* per caller: position in TMPFS_MOUNTS
    result,        \* per caller: what mount_essential_tmpfs returned
    mountErr,      \* per caller: the mount error held while the mount list is dumped
    trace,         \* per caller: the OS operations of the current run, in order
    prev,          \* per caller: what the previous run returned, and (quiet) that
                   \*   the environment has not changed since it returned
    changed,       \* per caller: the environment changed since the last run returned
    runs,          \* number of runs started
    tmpfsMounts,   \* the mount table the runs iterate over
    start,         \* per caller: the file system as the current run found it, and
                   \*   (steady) that /proc/mounts has not changed since
    readHist,      \* the values procReadable has had
    okRuns,        \* number of runs that returned Ok
    probe          \* inspector-only specification: the last is_tmpfs query and answer

vars == << dirs, perm, mountTable, procReadable, pc, idx, result, mountErr,
           trace, prev, changed, runs, tmpfsMounts, start, readHist, okRuns, probe >>

(***************************************************************************)
(* /proc/mounts and the inspector (mounts.rs 98-114)                       *)
(***************************************************************************)
Whitespace == {" ", "\t"}

\* one row of the kernel mount list as text: columns separated by a space,
\* ended by a newline.  Text is a sequence of lexemes.
RECURSIVE RenderRow(_)
RenderRow(row) ==
    IF row = << >> THEN << "\n" >>
    ELSE IF Len(row) = 1 THEN << row[1], "\n" >>
    ELSE << row[1], " " >> \o RenderRow(Tail(row))

RECURSIVE Render(_)
Render(table) ==
    IF table = << >> THEN << >> ELSE RenderRow(Head(table)) \o Render(Tail(table))

\* fs::read_to_string("/proc/mounts")
ReadMounts ==
    IF procReadable THEN Ok(Render(mountTable)) ELSE Err("No such file or directory (os error 2)")

\* str::lines
RECURSIVE LinesFrom(_, _, _, _)
LinesFrom(text, i, cur, acc) ==
    IF i > Len(text) THEN (IF cur = << >> THEN acc ELSE Append(acc, cur))
    ELSE IF text[i] = "\n" THEN LinesFrom(text, i + 1, << >>, Append(acc, cur))
    ELSE LinesFrom(text, i + 1, Append(cur, text[i]), acc)

Lines(text) == LinesFrom(text, 1, << >>, << >>)

\* str::split_whitespace().collect()
RECURSIVE SplitFrom(_, _, _, _)
SplitFrom(line, i, cur, acc) ==
    IF i > Len(line) THEN (IF cur = "" THEN acc ELSE Append(acc, cur))
    ELSE IF line[i] \in Whitespace
         THEN SplitFrom(line, i + 1, "", IF cur = "" THEN acc ELSE Append(acc, cur))
    ELSE SplitFrom(line, i + 1, cur \o line[i], acc)

SplitWhitespace(line) == SplitFrom(line, 1, "", << >>)

\* slip: the file-system type of the row is not compared
LineMatches_AnyType(line, path_str) ==
    LET parts == SplitWhitespace(line)
    IN  Len(parts) >= 3 /\ parts[2] = path_str

\* slip: the device column is compared with the path
LineMatches_DeviceColumn(line, path_str) ==
    LET parts == SplitWhitespace(line)
    IN  Len(parts) >= 3 /\ parts[1] = path_str /\ parts[3] = "tmpfs"

\* the test of line 108
LineMatches(line, path_str) ==
    LET parts == SplitWhitespace(line)
    IN  Len(parts) >= 3 /\ parts[2] = path_str /\ parts[3] = "tmpfs"

\* slip: a line with fewer than three columns ends the scan
RECURSIVE ScanLines_StopAtMalformed(_, _, _)
ScanLines_StopAtMalformed(lines, i, path_str) ==
    IF i > Len(lines) THEN FALSE
    ELSE IF Len(SplitWhitespace(lines[i])) < 3 THEN FALSE
    ELSE IF LineMatches(lines[i], path_str) THEN TRUE
    ELSE ScanLines_StopAtMalformed(lines, i + 1, path_str)

\* the loop of lines 106-113: first matching line wins
RECURSIVE ScanLines(_, _, _)
ScanLines(lines, i, path_str) ==
    IF i > Len(lines) THEN FALSE
    ELSE IF LineMatches(lines[i], path_str) THEN TRUE
    ELSE ScanLines(lines, i + 1, path_str)

\* slip: the read of /proc/mounts is unwrapped with ?, so its failure is
\* returned
is_tmpfs_ReadErrorReturned(read, path) ==
    IF read.tag = "Err" THEN Internal("Failed to read /proc/mounts: " \o read.val)
    ELSE Ok(\E lines \in {Lines(read.val)} : ScanLines(lines, 1, path))

\* slip: an unreadable /proc/mounts counts as the path being mounted
is_tmpfs_UnreadableMeansMounted(read, path) ==
    IF read.tag = "Err" THEN Ok(TRUE)
    ELSE Ok(\E lines \in {Lines(read.val)} : ScanLines(lines, 1, path))

\* is_tmpfs, given the outcome of the read of /proc/mounts
is_tmpfs(read, path) ==
    IF read.tag = "Err" THEN Ok(FALSE)
    ELSE Ok(\E lines \in {Lines(read.val)} : ScanLines(lines, 1, path))

\* the value of probe before any query
NoProbe == [path |-> "", answer |-> NoResult]

(***************************************************************************)
(* Initial state                                                           *)
(***************************************************************************)
\* the row the kernel adds for mount(Some("tmpfs"), path, Some("tmpfs"), empty, None)
TmpfsRow(path) == << "tmpfs", path, "tmpfs", "rw,relatime", "0", "0" >>

RootRow == << "virtiofs", "/", "virtiofs", "rw,relatime", "0", "0" >>

\* mount lists a guest can boot with: the shared root alone; a tmpfs on a
\* directory outside the table; the shared file system mounted over /run
BootTables ==
    { << RootRow >>,
      << RootRow, TmpfsRow("/mnt") >>,
      << RootRow, << "virtiofs", "/run", "virtiofs", "rw,relatime", "0", "0" >> >> }

\* directory trees a guest can boot with
BootDirs ==
    { d \in SUBSET FsPaths :
        /\ {"/", "/mnt"} \subseteq d
        /\ \A p \in d : p = "/" \/ Parent(p) \in d }

MountPoints(table) == { table[i][2] : i \in { j \in DOMAIN table : Len(table[j]) >= 2 } }

IdleCallers ==
    /\ pc = [c \in Callers |-> "idle"]
    /\ idx = [c \in Callers |-> 1]
    /\ result = [c \in Callers |-> NoResult]
    /\ mountErr = [c \in Callers |-> ""]
    /\ trace = [c \in Callers |-> << >>]
    /\ prev = [c \in Callers |-> [tag |-> "None", val |-> "", quiet |-> FALSE]]
    /\ changed = [c \in Callers |-> FALSE]
    /\ runs = 0
    /\ start = [c \in Callers |-> [dirs |-> {}, perm |-> << >>, mountTable |-> << >>,
                                    steady |-> FALSE]]
    /\ okRuns = 0

Init ==
    /\ dirs \in BootDirs
    /\ mountTable \in BootTables
    /\ MountPoints(mountTable) \subseteq dirs
    /\ perm = [p \in FsPaths |-> IF p \in dirs THEN NewDirMode ELSE NoMode]
    /\ procReadable \in BOOLEAN
    /\ readHist = {procReadable}
    /\ tmpfsMounts = TMPFS_MOUNTS
    /\ IdleCallers
    /\ probe = NoProbe

(***************************************************************************)
(* mount_essential_tmpfs and mount_tmpfs (mounts.rs 39-96), one action per *)
(* operating-system operation                                              *)
(***************************************************************************)
\* slip: the mode is looked up by position in the table as written, the
\* path in the table as iterated
Cfg_ByPosition(c) ==
    [path |-> tmpfsMounts[idx[c]].path, mode |-> TMPFS_MOUNTS[idx[c]].mode]

Cfg(c) == tmpfsMounts[idx[c]]

\* record an operation of caller c on the path of its current entry
Log(c, ops) ==
    trace' = [trace EXCEPT ![c] = @ \o [i \in DOMAIN ops |->
                 [op |-> ops[i][1], path |-> Cfg(c).path, ok |-> ops[i][2],
                  err |-> ops[i][3]]]]

\* mount_tmpfs returned Ok: the loop of lines 42-44 takes the next entry, or
\* line 46 returns Ok(())
EntryDone(c) ==
    IF idx[c] < Len(tmpfsMounts)
    THEN /\ pc' = [pc EXCEPT ![c] = "is_tmpfs"]
         /\ idx' = [idx EXCEPT ![c] = @ + 1]
         /\ UNCHANGED << result, okRuns, changed >>
    ELSE /\ pc' = [pc EXCEPT ![c] = "returned"]
         /\ result' = [result EXCEPT ![c] = Ok("()")]
         /\ okRuns' = okRuns + 1
         /\ changed' = [changed EXCEPT ![c] = FALSE]
         /\ UNCHANGED idx

\* slip: the error of an entry is kept but the loop goes on with the next
\* entry
EntryFailed_Continue(c, err) ==
    /\ pc' = [pc EXCEPT ![c] = IF idx[c] < Len(tmpfsMounts) THEN "is_tmpfs" ELSE "returned"]
    /\ idx' = [idx EXCEPT ![c] = IF idx[c] < Len(tmpfsMounts) THEN @ + 1 ELSE @]
    /\ result' = [result EXCEPT ![c] = err]
    /\ UNCHANGED okRuns
    /\ changed' = [changed EXCEPT ![c] = FALSE]

\* mount_tmpfs returned Err: the ? of line 43 returns it from
\* mount_essential_tmpfs at once
EntryFailed(c, err) ==
    /\ pc' = [pc EXCEPT ![c] = "returned"]
    /\ result' = [result EXCEPT ![c] = err]
    /\ UNCHANGED okRuns
    /\ changed' = [changed EXCEPT ![c] = FALSE]
    /\ UNCHANGED idx

\* a call of mount_essential_tmpfs begins with the first entry
Start(c) ==
    /\ pc[c] \in {"idle", "returned"}
    /\ runs < MaxRuns
    /\ runs' = runs + 1
    /\ pc' = [pc EXCEPT ![c] = "is_tmpfs"]
    /\ idx' = [idx EXCEPT ![c] = 1]
    /\ prev' = [prev EXCEPT ![c] = [tag |-> result[c].tag, val |-> result[c].val,
                                      quiet |-> ~changed[c]]]
    /\ result' = [result EXCEPT ![c] = NoResult]
    /\ start' = [start EXCEPT ![c] = [dirs |-> dirs, perm |-> perm,
                                        mountTable |-> mountTable, steady |-> TRUE]]
    /\ UNCHANGED okRuns
    /\ trace' = [trace EXCEPT ![c] = << >>]
    /\ UNCHANGED << dirs, perm, mountTable, procReadable, readHist, tmpfsMounts, mountErr, changed, probe >>

\* variant: an entry found mounted still gets its permission bits set
Inspect_ChmodOnSkip(c) ==
    /\ pc[c] = "is_tmpfs"
    /\ \E read \in {ReadMounts} : \E r \in {is_tmpfs(read, Cfg(c).path)} :
           /\ Log(c, << << "read_mounts", read.tag = "Ok", "" >>,
                        << "is_tmpfs", r.tag = "Ok" /\ r.val = TRUE, "" >> >>)
           /\ IF r.tag # "Ok" THEN EntryFailed(c, r) /\ UNCHANGED perm
              ELSE IF r.val
                   THEN /\ EntryDone(c)
                        /\ perm' = [perm EXCEPT ![Cfg(c).path] = PermBits(Cfg(c).mode)]
              ELSE /\ pc' = [pc EXCEPT ![c] = "exists"]
                   /\ UNCHANGED << idx, result, okRuns, changed, perm >>
    /\ UNCHANGED << dirs, mountTable, procReadable, readHist, tmpfsMounts, mountErr, prev, start, runs, probe >>

\* lines 52-56: skip the entry if is_tmpfs says it is mounted
\* variant: the inspection waits until /proc/mounts can be read
Inspect_WaitForReadable(c) ==
    /\ pc[c] = "is_tmpfs"
    /\ procReadable
    /\ \E read \in {ReadMounts} : \E r \in {is_tmpfs(read, Cfg(c).path)} :
           /\ Log(c, << << "read_mounts", read.tag = "Ok", "" >>,
                        << "is_tmpfs", r.tag = "Ok" /\ r.val = TRUE, "" >> >>)
           /\ IF r.tag # "Ok" THEN EntryFailed(c, r)
              ELSE IF r.val THEN EntryDone(c)
              ELSE /\ pc' = [pc EXCEPT ![c] = "exists"]
                   /\ UNCHANGED << idx, result, okRuns, changed >>
    /\ UNCHANGED << dirs, perm, mountTable, procReadable, readHist, tmpfsMounts, mountErr, prev, start, runs, probe >>

Inspect(c) ==
    /\ pc[c] = "is_tmpfs"
    /\ \E read \in {ReadMounts} : \E r \in {is_tmpfs(read, Cfg(c).path)} :
           /\ Log(c, << << "read_mounts", read.tag = "Ok", "" >>,
                        << "is_tmpfs", r.tag = "Ok" /\ r.val = TRUE, "" >> >>)
           /\ IF r.tag # "Ok" THEN EntryFailed(c, r)
              ELSE IF r.val THEN EntryDone(c)
              ELSE /\ pc' = [pc EXCEPT ![c] = "exists"]
                   /\ UNCHANGED << idx, result, okRuns, changed >>
    /\ UNCHANGED << dirs, perm, mountTable, procReadable, readHist, tmpfsMounts, mountErr, prev, start, runs, probe >>

\* line 59: path.exists()
ExistsCheck(c) ==
    /\ pc[c] = "exists"
    /\ Log(c, << << "exists", Cfg(c).path \in dirs, "" >> >>)
    /\ pc' = [pc EXCEPT ![c] = IF Cfg(c).path \in dirs THEN "mount" ELSE "create_dir_all"]
    /\ UNCHANGED << dirs, perm, mountTable, procReadable, readHist, tmpfsMounts, idx, result, okRuns, mountErr,
                    prev, start, changed, runs, probe >>

\* the directories fs::create_dir_all makes when it gets as far as the
\* first n directories of the chain
Made(chain, n) == { chain[i] : i \in 1..n } \ dirs

\* lines 60-61: fs::create_dir_all(path), which makes the missing parents
\* first and can fail at any directory it has to make
CreateDirAll(c) ==
    /\ pc[c] = "create_dir_all"
    /\ LET chain == Chain(Cfg(c).path)
       IN  \/ /\ dirs' = dirs \cup Made(chain, Len(chain))
              /\ perm' = [p \in FsPaths |->
                            IF p \in Made(chain, Len(chain)) THEN NewDirMode ELSE perm[p]]
              /\ Log(c, << << "create_dir_all", TRUE, "" >> >>)
              /\ pc' = [pc EXCEPT ![c] = "mount"]
              /\ UNCHANGED << idx, result, okRuns, changed >>
           \/ \E e \in CreateErrors, j \in DOMAIN chain :
                /\ chain[j] \notin dirs
                /\ dirs' = dirs \cup Made(chain, j - 1)
                /\ perm' = [p \in FsPaths |->
                              IF p \in Made(chain, j - 1) THEN NewDirMode ELSE perm[p]]
                /\ Log(c, << << "create_dir_all", FALSE, e >> >>)
                /\ EntryFailed(c, Internal("Failed to create " \o Cfg(c).path \o ": " \o e))
    /\ UNCHANGED << mountTable, procReadable, readHist, tmpfsMounts, mountErr, prev, start, runs, probe >>

\* slip: whatever is mounted on the path is taken off before the mount
Mount_Replace(c) ==
    /\ pc[c] = "mount"
    /\ \/ /\ Cfg(c).path \in dirs
          /\ mountTable' = Append(SelectSeq(mountTable,
                                      LAMBDA row : ~(Len(row) >= 2 /\ row[2] = Cfg(c).path)),
                                  TmpfsRow(Cfg(c).path))
          /\ perm' = [perm EXCEPT ![Cfg(c).path] = FreshTmpfsMode]
          /\ Log(c, << << "mount", TRUE, "" >> >>)
          /\ pc' = [pc EXCEPT ![c] = "set_permissions"]
          /\ UNCHANGED mountErr
       \/ \E e \in MountErrors :
            /\ mountErr' = [mountErr EXCEPT ![c] = e]
            /\ Log(c, << << "mount", FALSE, e >> >>)
            /\ pc' = [pc EXCEPT ![c] = "dump"]
            /\ UNCHANGED << mountTable, perm >>
    /\ UNCHANGED << dirs, procReadable, readHist, tmpfsMounts, idx, result, okRuns, prev, start, changed, runs, probe >>

\* slip: the mount error is logged and the call goes on to set_permissions
Mount_ErrorIgnored(c) ==
    /\ pc[c] = "mount"
    /\ \/ /\ Cfg(c).path \in dirs
          /\ mountTable' = Append(mountTable, TmpfsRow(Cfg(c).path))
          /\ perm' = [perm EXCEPT ![Cfg(c).path] = FreshTmpfsMode]
          /\ Log(c, << << "mount", TRUE, "" >> >>)
       \/ \E e \in MountErrors :
            /\ Log(c, << << "mount", FALSE, e >> >>)
            /\ UNCHANGED << mountTable, perm >>
    /\ pc' = [pc EXCEPT ![c] = "set_permissions"]
    /\ UNCHANGED << dirs, procReadable, readHist, tmpfsMounts, idx, result, okRuns,
                    mountErr, prev, start, changed, runs, probe >>

\* lines 66-72: mount(Some("tmpfs"), path, Some("tmpfs"), MsFlags::empty(), None)
Mount(c) ==
    /\ pc[c] = "mount"
    /\ \/ /\ Cfg(c).path \in dirs
          /\ mountTable' = Append(mountTable, TmpfsRow(Cfg(c).path))
          /\ perm' = [perm EXCEPT ![Cfg(c).path] = FreshTmpfsMode]
          /\ Log(c, << << "mount", TRUE, "" >> >>)
          /\ pc' = [pc EXCEPT ![c] = "set_permissions"]
          /\ UNCHANGED mountErr
       \/ \E e \in MountErrors :
            /\ mountErr' = [mountErr EXCEPT ![c] = e]
            /\ Log(c, << << "mount", FALSE, e >> >>)
            /\ pc' = [pc EXCEPT ![c] = "dump"]
            /\ UNCHANGED << mountTable, perm >>
    /\ UNCHANGED << dirs, procReadable, readHist, tmpfsMounts, idx, result, okRuns, prev, start, changed, runs, probe >>

\* slip: the diagnostic read is unwrapped with ?, so its failure is what
\* the caller gets
Dump_ReadErrorReturned(c) ==
    /\ pc[c] = "dump"
    /\ Log(c, << << "read_mounts", ReadMounts.tag = "Ok", "" >> >>)
    /\ EntryFailed(c, IF ReadMounts.tag = "Ok"
                      THEN Internal("Failed to mount tmpfs on " \o Cfg(c).path
                                       \o ": " \o mountErr[c])
                      ELSE Internal("Failed to read /proc/mounts: " \o ReadMounts.val))
    /\ mountErr' = [mountErr EXCEPT ![c] = ""]
    /\ UNCHANGED << dirs, perm, mountTable, procReadable, readHist, tmpfsMounts, prev, start, runs, probe >>

\* lines 73-86: after a failed mount, log /proc/mounts if it can be read,
\* then return the mount error
Dump(c) ==
    /\ pc[c] = "dump"
    /\ Log(c, << << "read_mounts", ReadMounts.tag = "Ok", "" >> >>)
    /\ EntryFailed(c, Internal("Failed to mount tmpfs on " \o Cfg(c).path \o ": " \o mountErr[c]))
    /\ mountErr' = [mountErr EXCEPT ![c] = ""]
    /\ UNCHANGED << dirs, perm, mountTable, procReadable, readHist, tmpfsMounts, prev, start, runs, probe >>

\* slip: the permission failure is reported with the mount's message
SetPermissions_MountMessage(c) ==
    /\ pc[c] = "set_permissions"
    /\ \/ /\ perm' = [perm EXCEPT ![Cfg(c).path] = PermBits(Cfg(c).mode)]
          /\ Log(c, << << "set_permissions", TRUE, "" >> >>)
          /\ EntryDone(c)
       \/ \E e \in ChmodErrors :
            /\ Log(c, << << "set_permissions", FALSE, e >> >>)
            /\ EntryFailed(c, Internal("Failed to mount tmpfs on "
                                          \o Cfg(c).path \o ": " \o e))
            /\ UNCHANGED perm
    /\ UNCHANGED << dirs, mountTable, procReadable, readHist, tmpfsMounts, mountErr, prev, start, runs, probe >>

\* slip: a failed set_permissions takes the fresh mount off again
SetPermissions_Rollback(c) ==
    /\ pc[c] = "set_permissions"
    /\ \/ /\ perm' = [perm EXCEPT ![Cfg(c).path] = PermBits(Cfg(c).mode)]
          /\ Log(c, << << "set_permissions", TRUE, "" >> >>)
          /\ EntryDone(c)
          /\ UNCHANGED mountTable
       \/ \E e \in ChmodErrors :
            /\ Log(c, << << "set_permissions", FALSE, e >> >>)
            /\ EntryFailed(c, Internal("Failed to set permissions on "
                                          \o Cfg(c).path \o ": " \o e))
            /\ mountTable' = SubSeq(mountTable, 1, Len(mountTable) - 1)
            /\ perm' = [perm EXCEPT ![Cfg(c).path] = NewDirMode]
    /\ UNCHANGED << dirs, procReadable, readHist, tmpfsMounts, mountErr, prev, start, runs, probe >>

\* slip: a failed set_permissions is tried a second time before the error
\* is returned
SetPermissions_RetryOnce(c) ==
    /\ pc[c] = "set_permissions"
    /\ \/ /\ perm' = [perm EXCEPT ![Cfg(c).path] = PermBits(Cfg(c).mode)]
          /\ Log(c, << << "set_permissions", TRUE, "" >> >>)
          /\ EntryDone(c)
       \/ \E e \in ChmodErrors :
            /\ Log(c, << << "set_permissions", FALSE, e >> >>)
            /\ IF \E i \in DOMAIN trace[c] :
                      /\ trace[c][i].op = "set_permissions"
                      /\ trace[c][i].path = Cfg(c).path
               THEN EntryFailed(c, Internal("Failed to set permissions on "
                                               \o Cfg(c).path \o ": " \o e))
               ELSE UNCHANGED << pc, idx, result, okRuns, changed >>
            /\ UNCHANGED perm
    /\ UNCHANGED << dirs, mountTable, procReadable, readHist, tmpfsMounts, mountErr, prev, start, runs, probe >>

\* lines 89-95: fs::set_permissions(path, Permissions::from_mode(cfg.mode))
SetPermissions(c) ==
    /\ pc[c] = "set_permissions"
    /\ \/ /\ perm' = [perm EXCEPT ![Cfg(c).path] = PermBits(Cfg(c).mode)]
          /\ Log(c, << << "set_permissions", TRUE, "" >> >>)
          /\ EntryDone(c)
       \/ \E e \in ChmodErrors :
            /\ Log(c, << << "set_permissions", FALSE, e >> >>)
            /\ EntryFailed(c, Internal("Failed to set permissions on "
                                          \o Cfg(c).path \o ": " \o e))
            /\ UNCHANGED perm
    /\ UNCHANGED << dirs, mountTable, procReadable, readHist, tmpfsMounts, mountErr, prev, start, runs, probe >>

\* the environment: /proc gets mounted, or stops being readable
ProcFlip ==
    /\ procReadable' = ~procReadable
    /\ changed' = [c \in Callers |-> TRUE]
    /\ prev' = [c \in Callers |-> [prev[c] EXCEPT !.quiet = FALSE]]
    /\ start' = [c \in Callers |-> [start[c] EXCEPT !.steady = FALSE]]
    /\ readHist' = readHist \cup {~procReadable}
    /\ UNCHANGED tmpfsMounts
    /\ UNCHANGED << dirs, perm, mountTable, pc, idx, result, okRuns, mountErr, trace,
                    runs, probe >>

Run(c) ==
    \/ Start(c)
    \/ Inspect(c)
    \/ ExistsCheck(c)
    \/ CreateDirAll(c)
    \/ Mount(c)
    \/ Dump(c)
    \/ SetPermissions(c)

\* guest startup calls mount_essential_tmpfs from one context
Next == Run("init") \/ ProcFlip

Spec == Init /\ [][Next]_vars

(***************************************************************************)
(* Vocabulary of the properties                                            *)
(***************************************************************************)
\* the kernel mount list has a tmpfs mounted on p
Mounted(p) ==
    \E i \in DOMAIN mountTable :
        Len(mountTable[i]) >= 3 /\ mountTable[i][2] = p /\ mountTable[i][3] = "tmpfs"

\* entry i of the table is as the run is meant to leave it
EntryGood(i) ==
    /\ TMPFS_MOUNTS[i].path \in dirs
    /\ Mounted(TMPFS_MOUNTS[i].path)
    /\ perm[TMPFS_MOUNTS[i].path] = TMPFS_MOUNTS[i].mode

ReturnedOk(c) == pc[c] = "returned" /\ result[c].tag = "Ok"
ReturnedErr(c) == pc[c] = "returned" /\ result[c].tag # "Ok"

\* the operations of the current run of c that change the system
Changing == {"create_dir_all", "mount", "set_permissions"}
OpsOf(c, ops) == { i \in DOMAIN trace[c] : trace[c][i].op \in ops }

(***************************************************************************)
(* C1                                                                      *)
(***************************************************************************)
\* C1: whenever mount_essential_tmpfs has returned Ok, every entry of
\* TMPFS_MOUNTS exists, is a tmpfs mount according to the kernel mount list,
\* and has exactly its configured mode.
C1_OkImpliesAllEntriesGood ==
    \A c \in Callers : ReturnedOk(c) => \A i \in DOMAIN TMPFS_MOUNTS : EntryGood(i)

(***************************************************************************)
(* C2                                                                      *)
(***************************************************************************)
\* C2: a run that returns Ok after an earlier run failed part-way (so that
\* it started from a partially mounted state) leaves every entry existing,
\* tmpfs-backed and with its configured mode.
C2_OkAfterFailedRunAllEntriesGood ==
    \A c \in Callers :
        (ReturnedOk(c) /\ prev[c].tag = "Internal")
            => \A i \in DOMAIN TMPFS_MOUNTS : EntryGood(i)

(***************************************************************************)
(* C3                                                                      *)
(***************************************************************************)
\* C3 as stated: a run that follows a successful run with no intervening
\* change performs no mount and no permission-set operation and returns Ok.
C3_SecondRunIsNoOp ==
    \A c \in Callers :
        (pc[c] = "returned" /\ prev[c].tag = "Ok" /\ prev[c].quiet)
            => /\ result[c].tag = "Ok"
               /\ OpsOf(c, {"mount"}) = {}
               /\ OpsOf(c, {"set_permissions"}) = {}

\* C3 amended: the same, provided /proc/mounts is readable during the
\* second run; that run then only inspects and never leaves the inspector.
C3_SecondRunIsNoOpWhenReadable ==
    \A c \in Callers :
        (pc[c] \notin {"idle"} /\ prev[c].tag = "Ok" /\ prev[c].quiet /\ procReadable)
            => /\ OpsOf(c, Changing) = {}
               /\ pc[c] \in {"is_tmpfs", "returned"}
               /\ pc[c] = "returned" => result[c].tag = "Ok"

\* a second run that followed a successful one, read /proc/mounts three
\* times and returned
C3_Witness ==
    \E c \in Callers :
        /\ ReturnedOk(c) /\ prev[c].tag = "Ok" /\ prev[c].quiet /\ procReadable
        /\ Len(trace[c]) = 2 * Len(TMPFS_MOUNTS)

(***************************************************************************)
(* C4                                                                      *)
(***************************************************************************)
EntryIndex(p) == CHOOSE i \in DOMAIN TMPFS_MOUNTS : TMPFS_MOUNTS[i].path = p

FailedOps(c) == { i \in OpsOf(c, Changing) : ~trace[c][i].ok }

\* the message is one of the module's messages about path p
Names(msg, p) ==
    \E pre \in {"Failed to create ", "Failed to mount tmpfs on ",
                "Failed to set permissions on "},
       e \in CreateErrors \cup MountErrors \cup ChmodErrors :
        msg = pre \o p \o ": " \o e

\* C4: fail-fast.  When a run returns an error, exactly one operation
\* failed, on some entry k; nothing but the dump of /proc/mounts followed
\* it; no operation touched an entry after k; every entry before k is
\* still a tmpfs mount, as is every mount this run made; and the message
\* names the path of entry k.
C4_FailFast ==
    \A c \in Callers :
        ReturnedErr(c) =>
            /\ Cardinality(FailedOps(c)) = 1
            /\ \A f \in FailedOps(c) :
                 LET t == trace[c]
                     k == EntryIndex(t[f].path)
                 IN  /\ \A j \in (f + 1)..Len(t) :
                            t[j].op = "read_mounts" /\ t[j].path = t[f].path
                     /\ \A i \in DOMAIN t : EntryIndex(t[i].path) <= k
                     /\ \A j \in 1..(k - 1) :
                            Mounted(TMPFS_MOUNTS[j].path) /\ TMPFS_MOUNTS[j].path \in dirs
                     /\ \A i \in DOMAIN t :
                            (t[i].op = "mount" /\ t[i].ok)
                                => \E r \in DOMAIN mountTable : mountTable[r] = TmpfsRow(t[i].path)
                     /\ result[c].tag = "Internal"
                     /\ Names(result[c].val, TMPFS_MOUNTS[k].path)

\* the mount of the second entry failed in a run that had mounted the first
C4_Witness ==
    \E c \in Callers :
        /\ ReturnedErr(c)
        /\ \E f \in FailedOps(c) :
             trace[c][f].op = "mount" /\ trace[c][f].path = TMPFS_MOUNTS[2].path
        /\ \E i \in DOMAIN trace[c] :
             trace[c][i].op = "mount" /\ trace[c][i].ok
                /\ trace[c][i].path = TMPFS_MOUNTS[1].path
        /\ Mounted(TMPFS_MOUNTS[1].path) /\ ~Mounted(TMPFS_MOUNTS[3].path)

(***************************************************************************)
(* C5                                                                      *)
(***************************************************************************)
\* C5: when the inspector's read of /proc/mounts fails, is_tmpfs answers
\* "not mounted" without an error: the call goes on to the existence check
\* of the same entry and from there to create_dir_all or mount.
C5_UnreadableMeansNotMounted ==
    \A c \in Callers :
        \A i \in DOMAIN trace[c] :
            LET t == trace[c]
            IN  (t[i].op = "read_mounts" /\ ~t[i].ok /\ i < Len(t) /\ t[i + 1].op = "is_tmpfs")
                    => /\ ~t[i + 1].ok
                       /\ IF i + 1 = Len(t)
                          THEN pc[c] = "exists" /\ Cfg(c).path = t[i].path
                          ELSE t[i + 2].op = "exists" /\ t[i + 2].path = t[i].path
                       /\ (i + 3 <= Len(t)) =>
                              /\ t[i + 3].op \in {"create_dir_all", "mount"}
                              /\ t[i + 3].path = t[i].path

\* the read failed for a path that was a tmpfs mount already, and the run
\* went on to mount it again
C5_Witness ==
    \E c \in Callers :
        \E i \in DOMAIN trace[c] :
            /\ trace[c][i].op = "read_mounts" /\ ~trace[c][i].ok
            /\ \E j \in DOMAIN trace[c] :
                 /\ j > i
                 /\ trace[c][j].op = "mount" /\ trace[c][j].ok
                 /\ trace[c][j].path = trace[c][i].path
                 /\ Cardinality({ r \in DOMAIN mountTable :
                                    mountTable[r] = TmpfsRow(trace[c][i].path) }) >= 2

(***************************************************************************)
(* The inspector alone: is_tmpfs applied to arbitrary contents of          *)
(* /proc/mounts                                                            *)
(***************************************************************************)
\* rows /proc/mounts may hold: exact tmpfs rows for table paths (with and
\* without the trailing columns), rows whose mount point is close to a table
\* path (trailing slash, case, the target of a symlink, a longer path, a
\* parent), the right mount point with another file-system type, a table
\* path in the device column, and lines with fewer than three columns
RowPool ==
    { TmpfsRow("/tmp"),
      TmpfsRow("/var/tmp"),
      << "none", "/run", "tmpfs" >>,
      TmpfsRow("/tmp/"),
      TmpfsRow("/TMP"),
      TmpfsRow("/private/tmp"),
      TmpfsRow("/tmp/cache"),
      TmpfsRow("/var"),
      << "virtiofs", "/tmp", "virtiofs", "rw,relatime", "0", "0" >>,
      << "/var/tmp", "/mnt", "tmpfs", "rw,relatime", "0", "0" >>,
      << >>,
      << "tmpfs" >>,
      << "tmpfs", "/tmp" >>,
      << "/run", "tmpfs" >> }

InitInspector ==
    /\ dirs = FsPaths
    /\ perm = [p \in FsPaths |-> NewDirMode]
    /\ mountTable = << >>
    /\ procReadable \in BOOLEAN
    /\ readHist = {procReadable}
    /\ tmpfsMounts = TMPFS_MOUNTS
    /\ IdleCallers
    /\ probe = NoProbe

\* the kernel mount list gets another row
KernelAddRow(row) ==
    /\ Len(mountTable) < MaxRows
    /\ mountTable' = Append(mountTable, row)
    /\ probe' = NoProbe
    /\ UNCHANGED << dirs, perm, procReadable, readHist, tmpfsMounts, pc, idx, result, okRuns, mountErr, trace,
                    prev, start, changed, runs >>

\* a call is_tmpfs(q)
Probe(q) ==
    /\ probe' = [path |-> q, answer |-> is_tmpfs(ReadMounts, q)]
    /\ UNCHANGED << dirs, perm, mountTable, procReadable, readHist, tmpfsMounts, pc, idx, result, okRuns, mountErr,
                    trace, prev, start, changed, runs >>

NextInspector ==
    \/ \E row \in RowPool : KernelAddRow(row)
    \/ \E q \in TablePaths : Probe(q)

SpecInspector == InitInspector /\ [][NextInspector]_vars

(***************************************************************************)
(* C6                                                                      *)
(***************************************************************************)
\* C6: with /proc/mounts readable, is_tmpfs(path) is Ok(true) exactly when
\* some row of the mount list has at least three columns, the queried path
\* as its second column and "tmpfs" as its third; so rows whose mount point
\* differs from the path in any way, and rows of another type, never match.
C6_ExactMatch ==
    (probe.path # "" /\ procReadable)
        => /\ probe.answer.tag = "Ok"
           /\ probe.answer.val = TRUE <=> Mounted(probe.path)

\* /tmp was queried against a tmpfs row for "/tmp/" and a virtiofs row for
\* "/tmp", and the answer was false
C6_Witness ==
    /\ procReadable
    /\ probe.path = "/tmp"
    /\ probe.answer = Ok(FALSE)
    /\ \E i \in DOMAIN mountTable : mountTable[i] = TmpfsRow("/tmp/")
    /\ \E i \in DOMAIN mountTable : Len(mountTable[i]) >= 3
            /\ mountTable[i][2] = "/tmp" /\ mountTable[i][3] = "virtiofs"

(***************************************************************************)
(* C7                                                                      *)
(***************************************************************************)
\* C7: a run in which the mount of a path failed returns the mount failure
\* of that path, with the cause the mount reported, whether the diagnostic
\* read of /proc/mounts that follows succeeded or failed.
C7_MountErrorNotMasked ==
    \A c \in Callers :
        \A f \in DOMAIN trace[c] :
            LET t == trace[c]
            IN  (pc[c] = "returned" /\ t[f].op = "mount" /\ ~t[f].ok)
                    => /\ t[f].err \in MountErrors
                       /\ result[c] = Internal("Failed to mount tmpfs on " \o t[f].path
                                                  \o ": " \o t[f].err)
                       /\ f + 1 = Len(t)
                       /\ t[f + 1].op = "read_mounts"

\* the mount failed, the diagnostic read failed too, and the caller got the
\* mount error
C7_Witness ==
    \E c \in Callers :
        /\ ReturnedErr(c)
        /\ Len(trace[c]) >= 2
        /\ LET t == trace[c]
               n == Len(trace[c])
           IN  /\ t[n].op = "read_mounts" /\ ~t[n].ok
               /\ t[n - 1].op = "mount" /\ ~t[n - 1].ok
               /\ result[c].val = "Failed to mount tmpfs on " \o t[n].path
                                     \o ": " \o t[n - 1].err

(***************************************************************************)
(* C8                                                                      *)
(***************************************************************************)
\* the text each failing step puts before the path
StepMessage(op) ==
    CASE op = "create_dir_all"  -> "Failed to create "
      [] op = "mount"           -> "Failed to mount tmpfs on "
      [] op = "set_permissions" -> "Failed to set permissions on "

\* C8: a run returns Ok or an Internal error, nothing else; an error comes
\* from exactly one failed step, its message is that step's text, the path
\* of the failed entry and the cause; and no other step could have produced
\* the same message for any path and cause.
C8_SingleErrorKind ==
    \A c \in Callers :
        pc[c] = "returned" =>
            /\ result[c].tag \in {"Ok", "Internal"}
            /\ result[c].tag = "Ok" => FailedOps(c) = {}
            /\ result[c].tag = "Internal" =>
                 /\ Cardinality(FailedOps(c)) = 1
                 /\ \A f \in FailedOps(c) :
                      LET t == trace[c]
                      IN  /\ t[f].path = Cfg(c).path
                          /\ result[c].val = StepMessage(t[f].op) \o t[f].path
                                                \o ": " \o t[f].err
                          /\ \A o \in Changing \ {t[f].op}, p \in TablePaths,
                                e \in CreateErrors \cup MountErrors \cup ChmodErrors :
                                StepMessage(o) \o p \o ": " \o e # result[c].val

\* a run that failed at the permission set of an entry it had mounted
C8_Witness ==
    \E c \in Callers :
        /\ ReturnedErr(c)
        /\ \E f \in FailedOps(c) :
             /\ trace[c][f].op = "set_permissions"
             /\ result[c] = Internal("Failed to set permissions on " \o trace[c][f].path
                                        \o ": " \o trace[c][f].err)

(***************************************************************************)
(* C9                                                                      *)
(***************************************************************************)
Range(seq) == { seq[i] : i \in DOMAIN seq }

\* C9: no step removes a directory or a row of the mount list; rows are
\* only added at the end and only tmpfs rows for table paths; a directory
\* outside the table keeps its permission bits, and one that appears is a
\* parent of a table path.
C9_NothingRemoved ==
    [][ /\ dirs \subseteq dirs'
        /\ Len(mountTable') >= Len(mountTable)
        /\ SubSeq(mountTable', 1, Len(mountTable)) = mountTable
        /\ \A r \in (Len(mountTable) + 1)..Len(mountTable') :
              \E q \in TablePaths : mountTable'[r] = TmpfsRow(q)
        /\ \A p \in FsPaths \ TablePaths :
              /\ p \in dirs => perm'[p] = perm[p]
              /\ p \in dirs' \ dirs => \E q \in TablePaths : p \in Range(Chain(q))
      ]_vars

\* a run made /var/tmp and mounted it in a guest that booted with the shared
\* file system on /run and a plain /mnt; both are as they were
C9_Witness ==
    \E c \in Callers :
        /\ \E i \in DOMAIN trace[c] :
             trace[c][i].op = "create_dir_all" /\ trace[c][i].ok
                /\ trace[c][i].path = "/var/tmp"
        /\ \E i \in DOMAIN trace[c] :
             trace[c][i].op = "mount" /\ trace[c][i].ok /\ trace[c][i].path = "/run"
        /\ mountTable[2] = << "virtiofs", "/run", "virtiofs", "rw,relatime", "0", "0" >>
        /\ mountTable[Len(mountTable)] = TmpfsRow("/run")
        /\ "/var" \in dirs /\ perm["/mnt"] = NewDirMode

(***************************************************************************)
(* C10                                                                     *)
(***************************************************************************)
\* C10: the step in which is_tmpfs reports the entry's path as mounted
\* changes no directory, no permission bits and no mount; it makes no
\* further operation on the entry and goes on to the next entry, or returns
\* Ok after the last.
C10_SkipChangesNothing ==
    [][ \A c \in Callers :
          ( /\ pc[c] = "is_tmpfs"
            /\ trace'[c] # trace[c]
            /\ trace'[c][Len(trace'[c])].op = "is_tmpfs"
            /\ trace'[c][Len(trace'[c])].ok )
          => /\ dirs' = dirs /\ perm' = perm /\ mountTable' = mountTable
             /\ Len(trace'[c]) = Len(trace[c]) + 2
             /\ IF idx[c] < Len(TMPFS_MOUNTS)
                THEN pc'[c] = "is_tmpfs" /\ idx'[c] = idx[c] + 1 /\ result'[c] = result[c]
                ELSE pc'[c] = "returned" /\ result'[c] = Ok("()")
      ]_vars

\* /run was found mounted and skipped while its mode was not the configured
\* one, and still is not
C10_Witness ==
    \E c \in Callers :
        /\ ReturnedOk(c)
        /\ LET n == Len(trace[c])
           IN  /\ n >= 1
               /\ trace[c][n].op = "is_tmpfs" /\ trace[c][n].ok
               /\ trace[c][n].path = "/run"
        /\ perm["/run"] = FreshTmpfsMode

(***************************************************************************)
(* C11                                                                     *)
(***************************************************************************)
\* C11: within a call the operations come in the order inspect, exists,
\* create_dir_all, mount, set_permissions.  create_dir_all directly follows
\* an existence check that found the path missing; mount directly follows
\* an existence check that found the path or a create_dir_all that
\* succeeded, and the path exists then; set_permissions directly follows a
\* successful mount of the same path.
C11_StepOrder ==
    \A c \in Callers :
        \A i \in DOMAIN trace[c] :
            LET t == trace[c]
                After(ops, ok) ==
                    /\ i > 1
                    /\ t[i - 1].op \in ops /\ t[i - 1].ok = ok
                    /\ t[i - 1].path = t[i].path
            IN  /\ t[i].op = "is_tmpfs" =>
                     After({"read_mounts"}, TRUE) \/ After({"read_mounts"}, FALSE)
                /\ t[i].op = "exists" => After({"is_tmpfs"}, FALSE)
                /\ t[i].op = "create_dir_all" => After({"exists"}, FALSE)
                /\ t[i].op = "mount" =>
                     /\ After({"exists"}, TRUE) \/ After({"create_dir_all"}, TRUE)
                     /\ t[i].path \in dirs
                /\ t[i].op = "set_permissions" => After({"mount"}, TRUE)

\* a call that found its path missing, made it, mounted it and set its mode
C11_Witness ==
    \E c \in Callers :
        \E i \in DOMAIN trace[c] :
            /\ i + 3 <= Len(trace[c])
            /\ trace[c][i].op = "exists" /\ ~trace[c][i].ok
            /\ trace[c][i + 1].op = "create_dir_all" /\ trace[c][i + 1].ok
            /\ trace[c][i + 2].op = "mount" /\ trace[c][i + 2].ok
            /\ trace[c][i + 3].op = "set_permissions" /\ trace[c][i + 3].ok

(***************************************************************************)
(* The scenario of a two-entry table on an empty system                    *)
(***************************************************************************)
ScenarioTable ==
    << [path |-> "/tmp", mode |-> Octal(1, 7, 7, 7)],
       [path |-> "/run", mode |-> Octal(0, 7, 5, 5)] >>

\* nothing but the root directory, an empty and readable mount list
InitScenario ==
    /\ dirs = {"/"}
    /\ perm = [p \in FsPaths |-> IF p = "/" THEN NewDirMode ELSE NoMode]
    /\ mountTable = << >>
    /\ procReadable = TRUE
    /\ readHist = {TRUE}
    /\ tmpfsMounts = ScenarioTable
    /\ IdleCallers
    /\ probe = NoProbe

NextScenario == Run("init")

SpecScenario == InitScenario /\ [][NextScenario]_vars

\* the list tbl has a tmpfs mounted on p
MountedIn(tbl, p) ==
    \E i \in DOMAIN tbl : Len(tbl[i]) >= 3 /\ tbl[i][2] = p /\ tbl[i][3] = "tmpfs"

\* the operations of a trace and their paths
OpsAndPaths(t) == [i \in DOMAIN t |-> << t[i].op, t[i].path >>]

\* what a call does for a path that is missing and not mounted
FullEntry(p) ==
    << << "read_mounts", p >>, << "is_tmpfs", p >>, << "exists", p >>,
       << "create_dir_all", p >>, << "mount", p >>, << "set_permissions", p >> >>

(***************************************************************************)
(* C12                                                                     *)
(***************************************************************************)
\* C12: on the empty system the first run, when no operation fails, does
\* everything for /tmp and then everything for /run, returns Ok and leaves
\* both directories made, mounted and with modes 1777 and 755.  A later run
\* that starts with /tmp mounted as tmpfs inspects /tmp, does nothing else
\* on it, and its next operation is the inspection of /run.
C12_Scenario ==
    \A c \in Callers :
        /\ (pc[c] = "returned" /\ prev[c].tag = "None"
                /\ \A i \in DOMAIN trace[c] : trace[c][i].op \in Changing => trace[c][i].ok)
             => /\ result[c] = Ok("()")
                /\ OpsAndPaths(trace[c]) = FullEntry("/tmp") \o FullEntry("/run")
                /\ {"/tmp", "/run"} \subseteq dirs
                /\ Mounted("/tmp") /\ Mounted("/run")
                /\ perm["/tmp"] = Octal(1, 7, 7, 7) /\ perm["/run"] = Octal(0, 7, 5, 5)
        /\ (pc[c] \notin {"idle", "is_tmpfs"} \/ (pc[c] = "is_tmpfs" /\ idx[c] > 1))
             /\ prev[c].tag # "None" /\ MountedIn(start[c].mountTable, "/tmp")
             => LET t == trace[c]
                IN  /\ Len(t) >= 2
                    /\ OpsAndPaths(SubSeq(t, 1, 2))
                          = << << "read_mounts", "/tmp" >>, << "is_tmpfs", "/tmp" >> >>
                    /\ t[2].ok
                    /\ \A i \in 3..Len(t) : t[i].path = "/run"
                    /\ Len(t) >= 3 => t[3].op = "read_mounts"
                    /\ perm["/tmp"] = start[c].perm["/tmp"]

\* the first run mounted /tmp and failed on /run; the rerun skipped /tmp
\* and mounted /run
C12_Witness ==
    \E c \in Callers :
        /\ ReturnedOk(c) /\ prev[c].tag = "Internal"
        /\ MountedIn(start[c].mountTable, "/tmp")
        /\ ~MountedIn(start[c].mountTable, "/run")
        /\ Len(trace[c]) >= 3 /\ trace[c][3].path = "/run"
        /\ Mounted("/run")

(***************************************************************************)
(* Two contexts calling mount_essential_tmpfs at the same time             *)
(***************************************************************************)
\* the guest boots with a bare or a complete directory tree and a readable
\* mount list
InitConcurrent ==
    /\ dirs \in {{"/", "/mnt"}, FsPaths}
    /\ mountTable = <<RootRow>>
    /\ perm = [p \in FsPaths |-> IF p \in dirs THEN NewDirMode ELSE NoMode]
    /\ procReadable = TRUE
    /\ readHist = {TRUE}
    /\ tmpfsMounts = TMPFS_MOUNTS
    /\ IdleCallers
    /\ probe = NoProbe

NextConcurrent == Run("init") \/ Run("other")

SpecConcurrent == InitConcurrent /\ [][NextConcurrent]_vars

\* the tmpfs rows the live mount table holds for a path
TmpfsRows(tbl, p) == { i \in DOMAIN tbl : tbl[i] = TmpfsRow(p) }

\* caller c found p not mounted in a mount table it could read and then
\* had its mount syscall for p succeed
CheckedThenMounted(c, p) ==
    \E i, j, k \in DOMAIN trace[c] :
        /\ i < j /\ j < k
        /\ trace[c][i].op = "read_mounts" /\ trace[c][i].path = p /\ trace[c][i].ok
        /\ trace[c][j].op = "is_tmpfs" /\ trace[c][j].path = p /\ ~trace[c][j].ok
        /\ trace[c][k].op = "mount" /\ trace[c][k].path = p /\ trace[c][k].ok

\* C13: as long as only one caller has ever run mount_essential_tmpfs and
\* /proc/mounts has always been readable, no configured path carries more
\* than one tmpfs mount; the duplicate of C13_Witness needs the second caller.
C13_SingleCallerNeverMountsTwice ==
    (\E c \in Callers : pc[c] = "idle" /\ trace[c] = << >>) /\ readHist = {TRUE}
        => \A p \in TablePaths : Cardinality(TmpfsRows(mountTable, p)) <= 1

\* the check-then-act race: both callers read the mount table, both found
\* the same path not mounted, both mounted it, and the path now carries two
\* tmpfs mounts although /proc/mounts was readable all along
C13_Witness ==
    /\ readHist = {TRUE}
    /\ \E p \in TablePaths :
          /\ \A c \in Callers : CheckedThenMounted(c, p)
          /\ Cardinality(TmpfsRows(mountTable, p)) = 2

\* the operations of kind op that caller c's current run made on path p
Attempts(c, op, p) == { i \in OpsOf(c, {op}) : trace[c][i].path = p }

\* C14: within one run every table entry gets at most one create_dir_all,
\* at most one mount and at most one set_permissions, and once one of them
\* has failed the run makes no further state-changing call.
C14_NoRetry ==
    \A c \in Callers :
        /\ \A p \in TablePaths : \A op \in Changing :
               Cardinality(Attempts(c, op, p)) <= 1
        /\ \A i \in FailedOps(c) : \A j \in OpsOf(c, Changing) : j <= i

\* a run that handled /tmp and /var/tmp completely and was returned the
\* failure of its only create_dir_all on /run
C14_Witness ==
    /\ ReturnedErr("init")
    /\ \A p \in {"/tmp", "/var/tmp"} : \A op \in {"mount", "set_permissions"} :
           \E i \in Attempts("init", op, p) : trace["init"][i].ok
    /\ \E i \in Attempts("init", "create_dir_all", "/run") :
           /\ ~trace["init"][i].ok
           /\ i = Len(trace["init"])

(***************************************************************************)
(* The table of lines 19-32 written in any order of its entries            *)
(***************************************************************************)
Orders == { f \in [DOMAIN TMPFS_MOUNTS -> DOMAIN TMPFS_MOUNTS] :
              \A i, j \in DOMAIN TMPFS_MOUNTS : i # j => f[i] # f[j] }

InitPermuted ==
    /\ dirs \in BootDirs
    /\ mountTable \in BootTables
    /\ MountPoints(mountTable) \subseteq dirs
    /\ perm = [p \in FsPaths |-> IF p \in dirs THEN NewDirMode ELSE NoMode]
    /\ procReadable \in BOOLEAN
    /\ readHist = {procReadable}
    /\ tmpfsMounts \in { [i \in DOMAIN TMPFS_MOUNTS |-> TMPFS_MOUNTS[f[i]]] : f \in Orders }
    /\ IdleCallers
    /\ probe = NoProbe

NextPermuted == Run("init")

SpecPermuted == InitPermuted /\ [][NextPermuted]_vars

\* how often the row r occurs in a mount list
Count(tbl, r) == Cardinality({ i \in DOMAIN tbl : tbl[i] = r })

\* the paths a run started in state s leaves alone: those is_tmpfs finds
\* mounted in a readable list
Skipped(s) == { p \in TablePaths : procReadable /\ MountedIn(s.mountTable, p) }

\* the directories a run started in state s has to make
NewDirs(s) == UNION { Range(Chain(p)) : p \in TablePaths \ Skipped(s) } \ s.dirs

\* the paths on which caller c's current run has made an operation
Touched(c) == { trace[c][i].path : i \in DOMAIN trace[c] }

\* C15: whatever the order of the table, a run that returns Ok while
\* nothing else changes the system ends in a state fixed by the state it
\* started in and by the set of entries: the directories of the entries not
\* skipped are made, each of them has one more tmpfs mounted and the mode of
\* its entry, everything else is as before.  While a run is going on, an
\* entry it has not reached yet is as it was at the start: mounted or not,
\* present or not, same mode.
C15_OrderIndependent ==
    \A c \in Callers :
        LET s == start[c]
        IN  /\ ReturnedOk(c) /\ s.steady
               => /\ dirs = s.dirs \cup NewDirs(s)
                  /\ \A p \in FsPaths :
                        perm[p] = IF p \in TablePaths \ Skipped(s)
                                  THEN PermBits(TMPFS_MOUNTS[EntryIndex(p)].mode)
                                  ELSE IF p \in NewDirs(s) THEN NewDirMode
                                  ELSE s.perm[p]
                  /\ \A r \in Range(mountTable) \cup Range(s.mountTable)
                                \cup { TmpfsRow(p) : p \in TablePaths } :
                        Count(mountTable, r) = Count(s.mountTable, r)
                            + (IF \E p \in TablePaths \ Skipped(s) : r = TmpfsRow(p)
                               THEN 1 ELSE 0)
            /\ pc[c] \notin {"idle", "returned"} /\ s.steady
               => \A q \in TablePaths \ Touched(c) :
                      /\ q \in dirs <=> q \in s.dirs
                      /\ perm[q] = s.perm[q]
                      /\ Mounted(q) <=> MountedIn(s.mountTable, q)

\* a run over the table in the order /run, /var/tmp, /tmp that returned Ok
\* having made and mounted all three
C15_Witness ==
    /\ ReturnedOk("init")
    /\ [i \in DOMAIN tmpfsMounts |-> tmpfsMounts[i].path] = << "/run", "/var/tmp", "/tmp" >>
    /\ OpsAndPaths(trace["init"])
          = FullEntry("/run") \o FullEntry("/var/tmp") \o FullEntry("/tmp")
    /\ perm["/run"] = Octal(0, 7, 5, 5) /\ perm["/tmp"] = Octal(1, 7, 7, 7)

(***************************************************************************)
(* C16                                                                     *)
(***************************************************************************)
\* a row of fewer than three columns; the row of no columns is an empty line
Malformed(row) == Len(row) < 3

IsWellFormed(row) == ~Malformed(row)

\* C16: with /proc/mounts readable, is_tmpfs answers Ok, and its answer is
\* the one it gives on the same list with the malformed rows taken out: a
\* malformed row neither fails the inspection, nor matches, nor hides a
\* well-formed row that comes after it.
C16_MalformedRowsSkipped ==
    (probe.path # "" /\ procReadable)
        => /\ probe.answer.tag = "Ok"
           /\ probe.answer
                 = is_tmpfs(Ok(Render(SelectSeq(mountTable, IsWellFormed))), probe.path)
           /\ (\A i \in DOMAIN mountTable : Malformed(mountTable[i]))
                 => probe.answer.val = FALSE

\* /tmp was queried against a list whose first row is malformed and whose
\* second row is the tmpfs mount of /tmp, and the answer was true
C16_Witness ==
    /\ procReadable
    /\ probe.path = "/tmp"
    /\ Len(mountTable) = 2
    /\ Malformed(mountTable[1])
    /\ mountTable[2] = TmpfsRow("/tmp")
    /\ probe.answer = Ok(TRUE)

(***************************************************************************)
(* C17                                                                     *)
(***************************************************************************)
\* caller c's current run made the directory of p itself
MadeDir(c, p) == \E i \in Attempts(c, "create_dir_all", p) : trace[c][i].ok

\* C17: nothing is undone on failure.  A run returned with the failure of
\* set_permissions on p leaves p a directory with the tmpfs it has just
\* mounted as the last row of the mount list and with the mode the mount
\* came with; a run returned with the failure of mount on p leaves p a
\* directory, with no new mount on it; and in both cases the directories the
\* run made for p are still there.
C17_NoRollback ==
    \A c \in Callers :
        ReturnedErr(c) =>
            \A f \in FailedOps(c) :
                LET p == trace[c][f].path
                IN  /\ trace[c][f].op = "set_permissions"
                        => /\ p \in dirs
                           /\ Mounted(p)
                           /\ mountTable # << >>
                           /\ mountTable[Len(mountTable)] = TmpfsRow(p)
                           /\ Len(mountTable) > Len(start[c].mountTable)
                           /\ perm[p] = FreshTmpfsMode
                    /\ trace[c][f].op = "mount"
                        => /\ p \in dirs
                           /\ Count(mountTable, TmpfsRow(p))
                                 = Count(start[c].mountTable, TmpfsRow(p))
                           /\ MadeDir(c, p) => perm[p] = NewDirMode
                    /\ trace[c][f].op \in {"mount", "set_permissions"} /\ MadeDir(c, p)
                        => /\ p \notin start[c].dirs
                           /\ Range(Chain(p)) \subseteq dirs

\* a run that made /var and /var/tmp, mounted /var/tmp and was returned the
\* failure of set_permissions on it
C17_Witness ==
    /\ ReturnedErr("init")
    /\ MadeDir("init", "/var/tmp")
    /\ "/var" \notin start["init"].dirs
    /\ \E f \in FailedOps("init") :
          /\ trace["init"][f].op = "set_permissions"
          /\ trace["init"][f].path = "/var/tmp"
    /\ Mounted("/var/tmp")

(***************************************************************************)
(* C18                                                                     *)
(***************************************************************************)
\* the mount syscalls of caller c's current run on p that succeeded
Mounts(c, p) == { i \in Attempts(c, "mount", p) : trace[c][i].ok }

\* C18: in every run, set_permissions on a path comes directly after the
\* successful mount of that path by the same call, so a run sets the mode of
\* a path at most as often as it mounts it; a path that is_tmpfs reported as
\* tmpfs gets neither a mount nor a set_permissions and has the mode it had
\* when the run began.
C18_ModeSetOnlyAfterOwnMount ==
    \A c \in Callers :
        LET t == trace[c]
        IN  /\ \A i \in DOMAIN t :
                  /\ t[i].op = "set_permissions"
                       => /\ i - 1 \in Mounts(c, t[i].path)
                          /\ perm[t[i].path] \in
                                {FreshTmpfsMode, PermBits(TMPFS_MOUNTS[EntryIndex(t[i].path)].mode)}
                  /\ (t[i].op = "is_tmpfs" /\ t[i].ok)
                       => /\ Attempts(c, "mount", t[i].path) = {}
                          /\ Attempts(c, "set_permissions", t[i].path) = {}
                          /\ perm[t[i].path] = start[c].perm[t[i].path]
            /\ \A p \in TablePaths :
                  Cardinality(Attempts(c, "set_permissions", p)) <= Cardinality(Mounts(c, p))

\* the second run found /tmp and /var/tmp mounted and left their modes
\* alone, mounted /run and set its mode
C18_Witness ==
    /\ ReturnedOk("init")
    /\ runs = 2
    /\ \A p \in {"/tmp", "/var/tmp"} :
          /\ \E i \in Attempts("init", "is_tmpfs", p) : trace["init"][i].ok
          /\ perm[p] = start["init"].perm[p]
    /\ Cardinality(Mounts("init", "/run")) = 1
    /\ \E i \in Attempts("init", "set_permissions", "/run") : trace["init"][i].ok
    /\ perm["/run"] # start["init"].perm["/run"]

(***************************************************************************)
(* C19                                                                     *)
(***************************************************************************)
\* the entries caller c's current run has gone past: with no early Ok other
\* than the skip, these are the paths before the one being worked on, and
\* all of them once the run has returned Ok
Passed(c) ==
    { tmpfsMounts[i].path : i \in { j \in DOMAIN tmpfsMounts :
                                       j < idx[c] \/ ReturnedOk(c) } }

\* C19: as long as /proc/mounts has never been readable, is_tmpfs never
\* reports a path as mounted, a run ends early only through a failed step,
\* every entry a run has gone past got exactly one successful mount and one
\* successful set_permissions, and each configured path carries at least as
\* many tmpfs mounts as runs have returned Ok: exactly as many once every
\* run so far has returned Ok.
C19_UnreadableStacksMounts ==
    readHist = {FALSE} =>
        /\ \A c \in Callers :
              /\ \A i \in OpsOf(c, {"is_tmpfs"}) : ~trace[c][i].ok
              /\ \A i \in OpsOf(c, {"read_mounts"}) : ~trace[c][i].ok
              /\ ReturnedErr(c) => FailedOps(c) # {}
              /\ pc[c] # "idle" =>
                    \A p \in Passed(c) :
                        /\ Cardinality(Mounts(c, p)) = 1
                        /\ Cardinality(Attempts(c, "mount", p)) = 1
                        /\ Cardinality(Attempts(c, "set_permissions", p)) = 1
                        /\ \A i \in Attempts(c, "set_permissions", p) : trace[c][i].ok
        /\ \A p \in TablePaths :
              /\ Count(mountTable, TmpfsRow(p)) >= okRuns
              /\ (okRuns = runs /\ \A c \in Callers : pc[c] \in {"idle", "returned"})
                    => Count(mountTable, TmpfsRow(p)) = okRuns

\* two runs returned Ok with /proc/mounts unreadable throughout, and every
\* configured path has two tmpfs mounts on it
C19_Witness ==
    /\ readHist = {FALSE}
    /\ okRuns = 2
    /\ ReturnedOk("init")
    /\ \A p \in TablePaths : Count(mountTable, TmpfsRow(p)) = 2

(***************************************************************************)
(* A call that has begun keeps executing                                   *)
(***************************************************************************)
\* the steps of a running call: everything but its beginning.  None of them
\* blocks: fs::read_to_string, Path::exists, fs::create_dir_all, mount(2)
\* and fs::set_permissions all return, with a value or an error.
Step(c) ==
    \/ Inspect(c)
    \/ ExistsCheck(c)
    \/ CreateDirAll(c)
    \/ Mount(c)
    \/ Dump(c)
    \/ SetPermissions(c)

\* the thread that called mount_essential_tmpfs is scheduled until the call
\* returns; nothing is assumed about new calls or about /proc
SpecLive == Init /\ [][Next]_vars /\ WF_vars(Step("init"))

(***************************************************************************)
(* C20                                                                     *)
(***************************************************************************)
\* the operations of the longest pass over one entry
MaxOpsPerEntry == Len(FullEntry("/tmp"))

Running(c) == pc[c] \notin {"idle", "returned"}

\* the index in the iterated table of the entry for path p
Position(p) == CHOOSE i \in DOMAIN tmpfsMounts : tmpfsMounts[i].path = p

\* caller c's run so far is part of one pass over the table: its operations
\* never go back to an earlier entry, they are no more than one pass takes,
\* Ok is returned only past the last entry and an error at the entry whose
\* step failed
OnePass(c) ==
    /\ \A i, j \in DOMAIN trace[c] :
          i <= j => Position(trace[c][i].path) <= Position(trace[c][j].path)
    /\ Len(trace[c]) <= MaxOpsPerEntry * Len(tmpfsMounts)
    /\ ReturnedOk(c) => idx[c] = Len(tmpfsMounts)
    /\ ReturnedErr(c) => \E f \in FailedOps(c) :
                            /\ trace[c][f].path = tmpfsMounts[idx[c]].path
                            /\ \A i \in DOMAIN trace[c] :
                                  Position(trace[c][i].path) <= idx[c]

\* C20: a call that has begun returns, whatever fails and whether or not
\* /proc/mounts ever becomes readable, and what it has done when it returns
\* is one pass over the table: forward only, ended by Ok past the last
\* entry or by the error of the first entry that failed.
C20_Terminates ==
    Running("init") ~> (pc["init"] = "returned" /\ OnePass("init"))

\* the longest run there is, made with /proc/mounts unreadable from the
\* start: every entry fully processed and the last set_permissions failed
C20_Witness ==
    /\ readHist = {FALSE}
    /\ ReturnedErr("init")
    /\ idx["init"] = Len(tmpfsMounts)
    /\ Len(trace["init"]) = MaxOpsPerEntry * Len(tmpfsMounts)

====
